---- MODULE Spec2Model ----
(***************************************************************************)
(* Homebox Backup GUI (src/homebox_backup_gui.py).                         *)
(*                                                                         *)
(* The program is one Tk main loop (the UI thread) plus daemon worker      *)
(* threads started by the button handlers: _do_ssh_connect,                *)
(* _do_scan_containers and _do_backup.  Workers talk to the UI thread only *)
(* through root.after(0, callback); those callbacks are run by the main    *)
(* loop in the order they were scheduled, which is the sequence uiQueue.   *)
(* Workers read and write the instance fields (ssh_client,                 *)
(* remote_backup_path, backup_other_var) directly, without locks.          *)
(*                                                                         *)
(* Text (command output, paths) is a sequence of tokens; a token is one    *)
(* character or one indivisible piece of a path ("/data", "/a", ...).      *)
(* Log lines that only append text to the output widget are folded into    *)
(* the callback scheduled next to them; message boxes that only notify are *)
(* folded into the handler that opens them, except in                      *)
(* delete_server_backup, whose boxes are states of the handler (dialog):   *)
(* workers and callbacks run while a box is open.                          *)
(***************************************************************************)
EXTENDS Integers, Sequences, FiniteSets, TLC

\* ----------------------------------------------------------------- bounds
MaxConnects == 2      \* connection attempts the user makes
MaxScans == 2         \* container scans the user starts
MaxBackups == 2       \* backup runs the user starts
MaxQueue == 3         \* callbacks pending in the Tk main loop
MaxLive == 2          \* worker threads running at the same time
MaxOps == 4           \* worker threads started in all
MaxMounts == 2        \* mounts of a container (mount tables of SpecVolume)

\* ------------------------------------------------------------------- text
NL == "\n"
None == <<>>

Whitespace == {NL, " "}

RECURSIVE LStrip(_)
LStrip(s) ==
  IF s # <<>> /\ Head(s) \in Whitespace THEN LStrip(Tail(s)) ELSE s

RECURSIVE RStrip(_)
RStrip(s) ==
  IF s # <<>> /\ s[Len(s)] \in Whitespace
  THEN RStrip(SubSeq(s, 1, Len(s) - 1)) ELSE s

\* str.strip()
Strip(s) == RStrip(LStrip(s))

\* str.split(sep): the pieces between the separators, empty pieces included
RECURSIVE SplitAcc(_, _, _)
SplitAcc(s, sep, cur) ==
  IF s = <<>> THEN <<cur>>
  ELSE IF Head(s) = sep THEN <<cur>> \o SplitAcc(Tail(s), sep, <<>>)
  ELSE SplitAcc(Tail(s), sep, Append(cur, Head(s)))

Split(s, sep) == SplitAcc(s, sep, <<>>)

\* sub in s, for a one-token sub
Contains(tok, s) == \E i \in 1..Len(s) : s[i] = tok

RECURSIVE Concat(_)
Concat(ss) == IF ss = <<>> THEN <<>> ELSE Head(ss) \o Concat(Tail(ss))

\* ------------------------------------------------------- remote commands
\* What the three docker inspect templates of _get_volume_path print for a
\* mount table m (a sequence of [Source, Destination]); docker ends its
\* output with a newline.
DataDest == <<"/data">>

\* --format '{{json .Mounts}}': every field of every mount
JsonMounts(m) ==
  Concat([i \in 1..Len(m) |->
            <<"{">> \o m[i].Source \o <<":">> \o m[i].Destination \o <<"}">>])
    \o <<NL>>

\* --format '{{range .Mounts}}{{if eq .Destination "/data"}}{{.Source}}{{end}}{{end}}'
DataSourceOutput(m) ==
  Concat([i \in 1..Len(m) |->
            IF m[i].Destination = DataDest THEN m[i].Source ELSE <<>>])
    \o <<NL>>

\* --format '{{range .Mounts}}{{.Source}}{{end}}': the template prints
\* nothing between two mounts
AllSourcesOutput(m) == Concat([i \in 1..Len(m) |-> m[i].Source]) \o <<NL>>

\* '/data' in output
HasDataText(output) == Contains("/data", output)

\* volume_path of the /data branch: the stripped output, kept if non-empty
DataBranchPath(m) == Strip(DataSourceOutput(m))

\* volume_path of the fallback: .strip().split('\n')[0]
FallbackPath(m) == Split(Strip(AllSourcesOutput(m)), NL)[1]

\* docker ps --format '{{.ID}}|{{.Names}}|{{.Image}}': the lines of output
\* that split on '|' into exactly three parts
ParseContainers(output) ==
  SelectSeq(Split(Strip(output), NL),
            LAMBDA line : line # <<>> /\ Len(Split(line, "|")) = 3)

\* --------------------------------------------------------- input domains
Sources == {<<>>, <<"/a">>, <<"/b">>, <<"/data", "x">>}
Destinations == {DataDest, <<"/c">>, <<"/data", "x">>, <<"/d">>}
Mount == [Source : Sources, Destination : Destinations]

\* docker refuses two mounts on one destination
DistinctDest(m) ==
  \A i, j \in 1..Len(m) : i # j => m[i].Destination # m[j].Destination

MountTables ==
  {m \in UNION {[1..n -> Mount] : n \in 0..MaxMounts} : DistinctDest(m)}

\* the tables the runs of Spec meet: no mount, a /data mount, a mount
\* elsewhere, and a mount elsewhere whose text holds "/data"
MainMountTables ==
  { <<>>,
    <<[Source |-> <<"/a">>, Destination |-> DataDest]>>,
    <<[Source |-> <<"/a">>, Destination |-> <<"/c">>]>>,
    <<[Source |-> <<"/a">>, Destination |-> <<"/data", "x">>]>> }

Line3 == <<"i", "|", "n", "|", "m">>
\* outputs of docker ps: nothing at all, an empty line, one container, a
\* line that does not split in three
PsOutputs ==
  { <<>>,
    <<NL>>,
    Line3 \o <<NL>>,
    <<"i", "|", "n", NL>> }

\* The top-level entries of the data volume, in the order ls prints them:
\* an empty volume, or the media directory and two other entries.
Listings ==
  { <<>>, << <<"attachments">>, <<"f">>, <<"g">> >> }

\* stdout of ls -1 <volume>: each entry on a line of its own
LsOutput(entries) ==
  Concat([i \in 1..Len(entries) |-> entries[i] \o <<NL>>])

\* the exit status of the shell list `a || b`
ShOr(a, b) == IF a = 0 THEN 0 ELSE b

\* ------------------------------------------------------------------ state
VARIABLES
  ssh_client,          \* self.ssh_client: 0 (None) or the id of an SSHClient
  client,              \* each SSHClient object: "absent", "new", "connected", "closed"
  remote_backup_path,  \* self.remote_backup_path: 0 (None) or the run whose archive it names
  remote_archive,      \* on the server, the archive of each run: "none", "present", "deleted"
  connection_status,   \* text of the status label
  connect_btn,         \* state of the Connect button
  refresh_btn,         \* state of the Scan Containers button
  backup_btn,          \* state of the Start Backup button
  delete_btn,          \* state of the Delete Server Backup button
  other_cb,            \* state of the "Other Data Volume Files" checkbox
  backup_other_var,    \* self.backup_other_var
  progress_var,        \* self.progress_var
  containers_info,     \* len(self.containers_info); 0 before the first scan result
  conn,                \* the _do_ssh_connect threads
  scan,                \* the _do_scan_containers threads
  brun,                \* the _do_backup threads
  uiQueue,             \* callbacks scheduled with root.after(0, ...), oldest first
  dialog               \* the message box delete_server_backup has open: its
                       \* title, or "none"

vars ==
  << ssh_client, client, remote_backup_path, remote_archive,
     connection_status, connect_btn, refresh_btn, backup_btn, delete_btn, other_cb, backup_other_var,
     progress_var, containers_info, conn, scan, brun, uiQueue, dialog >>

Conns == 1..MaxConnects
Scans == 1..MaxScans
Runs == 1..MaxBackups

\* the cell of an exception variable `e` that a lambda closes over: empty
\* before the except clause is entered and again once it is left
Unbound == <<>>
\* what a callback leaves when reading the empty cell raises NameError
CallbackRaised == <<"NameError">>

AttributeErrorMsg == <<"AttributeError">>
CommandFailedMsg(cmd) == <<"Command failed", cmd, "stderr">>
NoVolumeMsg == <<"Could not determine data volume path">>
DownloadFailedMsg == <<"Download failed">>

IdleConn == [pc |-> "idle", e |-> Unbound]
IdleScan ==
  [pc |-> "idle", e |-> Unbound, listing |-> "none", found |-> 0,
   shown |-> {}, errlog |-> None]
\* a run: pc, the cell of `e`, the last command it sent (last), the command
\* that raised and how (failed: no usable session, or a non-zero status), the option at start_backup (other0), the mount
\* table of its container, volume_path (vol), what is left of the loop over
\* ls (dirs), and what its error callback wrote to the log.  While
\* _backup_other_files runs: the entries the volume holds (listing) and the
\* copies it has run, each with the exit status of its cp (copied).
\* other_dir: the run has created the other-files directory of its workspace.
IdleRun ==
  [pc |-> "idle", e |-> Unbound, last |-> None, failed |-> None,
   mounts |-> <<>>, vol |-> None, dirs |-> <<>>, other0 |-> FALSE,
   errlog |-> None, listing |-> <<>>, copied |-> <<>>, other_dir |-> FALSE]

\* A thread whose function has returned and whose callbacks have all run is
\* read by nothing: its record is dropped.
GoneConn == [IdleConn EXCEPT !.pc = "done"]
GoneScan == [IdleScan EXCEPT !.pc = "done"]
GoneRun == [IdleRun EXCEPT !.pc = "done"]

\* The constructor (lines 20-39).  set_container_frame_state('disabled') at
\* line 108 runs before the frame has children, so the Scan button keeps the
\* default state.  Line 132 names other_cb before line 149 creates it; Init
\* is the state the constructor's assignments give with that call skipped:
\* the other-files checkbox in the default state.
Init ==
  /\ ssh_client = 0
  /\ client = [c \in Conns |-> "absent"]
  /\ remote_backup_path = 0
  /\ remote_archive = [r \in Runs |-> "none"]
  /\ connection_status = "Not Connected"
  /\ connect_btn = "normal"
  /\ refresh_btn = "normal"
  /\ backup_btn = "disabled"
  /\ delete_btn = "disabled"
  /\ other_cb = "normal"
  /\ backup_other_var \in BOOLEAN
  /\ progress_var = 0
  /\ containers_info = 0
  /\ conn = [c \in Conns |-> IdleConn]
  /\ scan = [s \in Scans |-> IdleScan]
  /\ brun = [r \in Runs |-> IdleRun]
  /\ uiQueue = <<>>
  /\ dialog = "none"

\* the thread object a handler starts next
FreeId(threads) ==
  {i \in DOMAIN threads :
     threads[i].pc = "idle" /\ \A j \in DOMAIN threads : j < i => threads[j].pc # "idle"}

\* the worker threads that are running
Running(threads) == {i \in DOMAIN threads : threads[i].pc \notin {"idle", "done"}}
Live ==
  Cardinality(Running(conn)) + Cardinality(Running(scan))
    + Cardinality(Running(brun))

\* the worker threads started so far
Begun(threads) == {i \in DOMAIN threads : threads[i].pc # "idle"}
Started ==
  Cardinality(Begun(conn)) + Cardinality(Begun(scan)) + Cardinality(Begun(brun))

\* the bounds let a handler start one more thread
MayStart == Live < MaxLive /\ Started < MaxOps

\* self.ssh_client.exec_command works: there is a client and it is connected
SessionUsable == ssh_client # 0 /\ client[ssh_client] = "connected"

Callback(cb, id, arg) == [cb |-> cb, id |-> id, arg |-> arg]

\* root.after(0, ...) for each of cbs
After(cbs) == uiQueue' = uiQueue \o cbs
Room(n) == Len(uiQueue) + n <= MaxQueue

\* the main loop takes the oldest callback
Due(cb) == uiQueue # <<>> /\ Head(uiQueue).cb = cb
Taken == uiQueue' = Tail(uiQueue)

\* callbacks of thread id, of one of the kinds cbs, still to run
Pending(q, cbs, id) == \E i \in 1..Len(q) : q[i].cb \in cbs /\ q[i].id = id

ConnCallbacks == {"connection_success", "connection_failed"}
ScanCallbacks ==
  {"scan_warning", "no_containers", "refresh_normal", "update_container_lists",
   "scan_error_log", "scan_error_box"}
RunCallbacks ==
  {"progress", "media_skipped", "delete_normal", "backup_normal",
   "backup_error_log", "backup_error_box"}

\* rec once the thread is over (done) and nothing of it is left in q
Settle(rec, gone, q, cbs, id) ==
  IF rec.pc = "done" /\ ~Pending(q, cbs, id) THEN gone ELSE rec

\* set_container_frame_state(state): the buttons (and comboboxes) of the frame
SetContainerFrameState(state) == refresh_btn' = state

\* set_options_frame_state(state)
SetOptionsFrameState(state) == other_cb' = state

\* ---------------------------------------------------------------- connect
\* connect_ssh, the Connect button (host, username and port given: with one
\* missing the handler shows an error and changes nothing)
ConnectSsh ==
  /\ dialog = "none"
  /\ connect_btn = "normal"
  /\ MayStart
  /\ \E c \in FreeId(conn) : conn' = [conn EXCEPT ![c].pc = "create"]
  /\ connect_btn' = "disabled"
  /\ UNCHANGED << ssh_client, client, remote_backup_path, remote_archive, connection_status,
                  refresh_btn, backup_btn, delete_btn, other_cb,
                  backup_other_var, progress_var, containers_info, scan, brun,
                  uiQueue,
                  dialog >>

\* _do_ssh_connect, line 246: self.ssh_client = paramiko.SSHClient()
DoSshConnectCreate(c) ==
  /\ conn[c].pc = "create"
  /\ ssh_client' = c
  /\ client' = [client EXCEPT ![c] = "new"]
  /\ conn' = [conn EXCEPT ![c].pc = "connect"]
  /\ UNCHANGED << remote_backup_path, remote_archive, connection_status, connect_btn,
                  refresh_btn, backup_btn, delete_btn, other_cb,
                  backup_other_var, progress_var, containers_info, scan, brun,
                  uiQueue,
                  dialog >>

\* _do_ssh_connect, lines 250-256: connect() returns or raises
DoSshConnect(c) ==
  /\ conn[c].pc = "connect"
  /\ Room(1)
  /\ \/ /\ client' = [client EXCEPT ![c] = "connected"]
        /\ After(<<Callback("connection_success", c, 0)>>)
        /\ conn' = [conn EXCEPT ![c].pc = "done"]
     \/ /\ After(<<Callback("connection_failed", c, 0)>>)
        /\ conn' = [conn EXCEPT ![c].pc = "except_exit",
                                ![c].e = <<"connect failed">>]
        /\ UNCHANGED client
  /\ UNCHANGED << ssh_client, remote_backup_path, remote_archive, connection_status,
                  connect_btn, refresh_btn, backup_btn, delete_btn, other_cb,
                  backup_other_var, progress_var, containers_info, scan, brun,
                  dialog >>

\* the end of an except clause deletes its `e`
DoSshConnectExit(c) ==
  /\ conn[c].pc = "except_exit"
  /\ conn' = [conn EXCEPT ![c] =
                Settle([@ EXCEPT !.pc = "done", !.e = Unbound], GoneConn,
                       uiQueue, ConnCallbacks, c)]
  /\ UNCHANGED << ssh_client, client, remote_backup_path, remote_archive, connection_status,
                  connect_btn, refresh_btn, backup_btn, delete_btn, other_cb,
                  backup_other_var, progress_var, containers_info, scan, brun,
                  uiQueue,
                  dialog >>

\* _connection_success
ConnectionSuccess ==
  /\ Due("connection_success")
  /\ Taken
  /\ connection_status' = "Connected"
  /\ SetContainerFrameState("normal")
  /\ connect_btn' = "normal"
  /\ LET c == Head(uiQueue).id IN
     conn' = [conn EXCEPT ![c] = Settle(@, GoneConn, uiQueue', ConnCallbacks, c)]
  /\ UNCHANGED << ssh_client, client, remote_backup_path, remote_archive,
                  backup_btn, delete_btn, other_cb, backup_other_var,
                  progress_var, containers_info, scan, brun,
                  dialog >>

\* lambda: self._connection_failed(str(e)), then _connection_failed
ConnectionFailed ==
  /\ Due("connection_failed")
  /\ Taken
  /\ LET c == Head(uiQueue).id IN
     IF conn[c].e = Unbound
     THEN \* NameError: _connection_failed is not entered
          /\ conn' = [conn EXCEPT ![c] =
                        Settle(@, GoneConn, uiQueue', ConnCallbacks, c)]
          /\ UNCHANGED << ssh_client, client, connection_status, connect_btn >>
     ELSE /\ conn' = [conn EXCEPT ![c] =
                        Settle(@, GoneConn, uiQueue', ConnCallbacks, c)]
          /\ connection_status' = "Not Connected"
          /\ connect_btn' = "normal"
          /\ IF ssh_client # 0
             THEN /\ client' = [client EXCEPT ![ssh_client] = "closed"]
                  /\ ssh_client' = 0
             ELSE UNCHANGED << ssh_client, client >>
  /\ UNCHANGED << remote_backup_path, remote_archive, refresh_btn, backup_btn, delete_btn,
                  other_cb, backup_other_var, progress_var, containers_info,
                  scan, brun,
                  dialog >>

\* ------------------------------------------------------------------- scan
\* scan_containers, the Scan Containers button
ScanContainers ==
  /\ dialog = "none"
  /\ refresh_btn = "normal"
  /\ ssh_client # 0
  /\ MayStart
  /\ \E s \in FreeId(scan) : scan' = [scan EXCEPT ![s].pc = "list"]
  /\ refresh_btn' = "disabled"
  /\ UNCHANGED << ssh_client, client, remote_backup_path, remote_archive, connection_status,
                  connect_btn, backup_btn, delete_btn, other_cb,
                  backup_other_var, progress_var, containers_info, conn, brun,
                  uiQueue,
                  dialog >>

\* ScanReport without the return of line 312: an empty list goes on to
\* _update_container_lists
ScanReportFallsThrough(s, output, error) ==
  LET containers == ParseContainers(output)
      warn == IF error THEN <<Callback("scan_warning", s, 0)>> ELSE <<>>
  IN  IF containers = <<>>
      THEN warn \o <<Callback("no_containers", s, 0),
                     Callback("update_container_lists", s, 0)>>
      ELSE warn \o <<Callback("update_container_lists", s, Len(containers))>>

\* what _do_scan_containers schedules for an output and an error text
ScanReport(s, output, error) ==
  LET containers == ParseContainers(output)
      warn == IF error THEN <<Callback("scan_warning", s, 0)>> ELSE <<>>
  IN  IF containers = <<>>
      THEN warn \o <<Callback("no_containers", s, 0),
                     Callback("refresh_normal", s, 0)>>
      ELSE warn \o <<Callback("update_container_lists", s, Len(containers))>>

\* _do_scan_containers, lines 293-319: exec_command and the parse of its
\* output.  The exit status is not read; a listing that fails prints to
\* stderr and nothing to stdout.
DoScanContainers(s) ==
  /\ scan[s].pc = "list"
  /\ \/ /\ ~SessionUsable
        /\ scan' = [scan EXCEPT ![s].pc = "except", ![s].e = AttributeErrorMsg]
        /\ UNCHANGED uiQueue
     \/ /\ SessionUsable
        /\ \E output \in PsOutputs, error \in BOOLEAN, failed \in BOOLEAN :
             /\ failed => (output = <<>> /\ error)
             /\ Room(Len(ScanReport(s, output, error)))
             /\ After(ScanReport(s, output, error))
             /\ scan' = [scan EXCEPT
                           ![s].pc = "done",
                           ![s].listing = IF failed THEN "failed" ELSE "ok",
                           ![s].found = Len(ParseContainers(output))]
  /\ UNCHANGED << ssh_client, client, remote_backup_path, remote_archive, connection_status,
                  connect_btn, refresh_btn, backup_btn, delete_btn, other_cb,
                  backup_other_var, progress_var, containers_info, conn, brun,
                  dialog >>

\* _do_scan_containers, lines 321-324
DoScanExcept(s) ==
  /\ scan[s].pc = "except"
  /\ Room(3)
  /\ After(<<Callback("scan_error_log", s, 0), Callback("scan_error_box", s, 0),
             Callback("refresh_normal", s, 0)>>)
  /\ scan' = [scan EXCEPT ![s].pc = "except_exit"]
  /\ UNCHANGED << ssh_client, client, remote_backup_path, remote_archive, connection_status,
                  connect_btn, refresh_btn, backup_btn, delete_btn, other_cb,
                  backup_other_var, progress_var, containers_info, conn, brun,
                  dialog >>

DoScanExit(s) ==
  /\ scan[s].pc = "except_exit"
  /\ scan' = [scan EXCEPT ![s] =
                Settle([@ EXCEPT !.pc = "done", !.e = Unbound], GoneScan,
                       uiQueue, ScanCallbacks, s)]
  /\ UNCHANGED << ssh_client, client, remote_backup_path, remote_archive, connection_status,
                  connect_btn, refresh_btn, backup_btn, delete_btn, other_cb,
                  backup_other_var, progress_var, containers_info, conn, brun,
                  uiQueue,
                  dialog >>

\* the callbacks _do_scan_containers schedules
ScanShown(s, what) ==
  scan' = [scan EXCEPT ![s] =
             Settle([@ EXCEPT !.shown = @ \cup {what}], GoneScan, uiQueue',
                    ScanCallbacks, s)]

\* lambda: self.log_output(f"Warning: {error}")
ScanWarning ==
  /\ Due("scan_warning")
  /\ Taken
  /\ ScanShown(Head(uiQueue).id, "warning_log")
  /\ UNCHANGED << ssh_client, client, remote_backup_path, remote_archive, connection_status,
                  connect_btn, refresh_btn, backup_btn, delete_btn, other_cb,
                  backup_other_var, progress_var, containers_info, conn, brun,
                  dialog >>

\* lambda: messagebox.showwarning("No Containers", ...)
NoContainersWarning ==
  /\ Due("no_containers")
  /\ Taken
  /\ ScanShown(Head(uiQueue).id, "no_containers")
  /\ UNCHANGED << ssh_client, client, remote_backup_path, remote_archive, connection_status,
                  connect_btn, refresh_btn, backup_btn, delete_btn, other_cb,
                  backup_other_var, progress_var, containers_info, conn, brun,
                  dialog >>

\* lambda: self.refresh_btn.configure(state='normal')
RefreshNormal ==
  /\ Due("refresh_normal")
  /\ Taken
  /\ refresh_btn' = "normal"
  /\ ScanShown(Head(uiQueue).id, "refresh_normal")
  /\ UNCHANGED << ssh_client, client, remote_backup_path, remote_archive, connection_status,
                  connect_btn, backup_btn, delete_btn, other_cb,
                  backup_other_var, progress_var, containers_info, conn, brun,
                  dialog >>

\* _update_container_lists (the comboboxes get the list and a selection)
UpdateContainerLists ==
  /\ Due("update_container_lists")
  /\ Taken
  /\ containers_info' = Head(uiQueue).arg
  /\ refresh_btn' = "normal"
  /\ SetOptionsFrameState("normal")
  /\ backup_btn' = "normal"
  /\ ScanShown(Head(uiQueue).id, "updated")
  /\ UNCHANGED << ssh_client, client, remote_backup_path, remote_archive, connection_status,
                  connect_btn, delete_btn, backup_other_var, progress_var,
                  conn, brun,
                  dialog >>

\* lambda: self.log_output(f"Error scanning containers: {e}")
ScanErrorLog ==
  /\ Due("scan_error_log")
  /\ Taken
  /\ LET s == Head(uiQueue).id IN
     scan' = [scan EXCEPT ![s].errlog =
                IF scan[s].e = Unbound THEN CallbackRaised ELSE scan[s].e]
  /\ UNCHANGED << ssh_client, client, remote_backup_path, remote_archive, connection_status,
                  connect_btn, refresh_btn, backup_btn, delete_btn, other_cb,
                  backup_other_var, progress_var, containers_info, conn, brun,
                  dialog >>

\* lambda: messagebox.showerror("Error", f"Failed to scan containers:\n{e}"):
\* the box, or NameError, changes no field
ScanErrorBox ==
  /\ Due("scan_error_box")
  /\ Taken
  /\ LET s == Head(uiQueue).id IN
     scan' = [scan EXCEPT ![s] = Settle(@, GoneScan, uiQueue', ScanCallbacks, s)]
  /\ UNCHANGED << ssh_client, client, remote_backup_path, remote_archive, connection_status,
                  connect_btn, refresh_btn, backup_btn, delete_btn, other_cb,
                  backup_other_var, progress_var, containers_info, conn,
                  dialog >>
  /\ UNCHANGED brun

\* ----------------------------------------------------------------- backup
\* start_backup, the Start Backup button.  The button is enabled only by
\* _update_container_lists, which leaves both comboboxes with a selection.
\* m is the mount table of the selected Homebox container.
StartBackup ==
  /\ dialog = "none"
  /\ backup_btn = "normal"
  /\ MayStart
  /\ \E r \in FreeId(brun), m \in MainMountTables :
       brun' = [brun EXCEPT ![r] = [IdleRun EXCEPT !.pc = "inspect_json",
                                                  !.mounts = m,
                                                  !.other0 = backup_other_var]]
  /\ backup_btn' = "disabled"
  /\ progress_var' = 0
  /\ UNCHANGED << ssh_client, client, remote_backup_path, remote_archive, connection_status,
                  connect_btn, refresh_btn, delete_btn, other_cb,
                  backup_other_var, containers_info, conn, scan, uiQueue,
                  dialog >>

\* what a worker step of _do_backup leaves alone
WorkerFrame ==
  UNCHANGED << ssh_client, client, connection_status, connect_btn,
               refresh_btn, backup_btn, delete_btn, other_cb,
               backup_other_var, progress_var, containers_info, conn, scan,
               dialog >>

Cmd(name) == <<name>>

\* _execute_command raising: no usable session (exec_command raises), or a
\* non-zero exit status (line 486)
ExecRaises(r, name, canFail) ==
  \/ /\ ~SessionUsable
     /\ brun' = [brun EXCEPT ![r].pc = "except", ![r].e = AttributeErrorMsg,
                             ![r].failed = <<name, "session">>]
  \/ /\ canFail
     /\ SessionUsable
     /\ brun' = [brun EXCEPT ![r].pc = "except",
                             ![r].e = CommandFailedMsg(name),
                             ![r].failed = <<name, "status">>,
                             ![r].last = Cmd(name)]

\* The steps of _do_backup.  A step is one remote command together with
\* the root.after calls that precede it in the code (before).

\* _get_volume_path, lines 493-500, after lines 401-402
GetVolumePathJson(r) ==
  /\ brun[r].pc = "inspect_json"
  /\ Room(1)
  /\ After(<<Callback("progress", r, 5)>>)
  /\ \/ ExecRaises(r, "inspect_json", TRUE)
     \/ /\ SessionUsable
        /\ brun' = [brun EXCEPT
                      ![r].last = Cmd("inspect_json"),
                      ![r].pc = IF HasDataText(JsonMounts(brun[r].mounts))
                                THEN "inspect_data" ELSE "inspect_any"]
  /\ UNCHANGED << remote_backup_path, remote_archive >>
  /\ WorkerFrame

\* _get_volume_path, lines 503-506
GetVolumePathData(r) ==
  /\ brun[r].pc = "inspect_data"
  /\ \/ ExecRaises(r, "inspect_data", TRUE)
     \/ /\ SessionUsable
        /\ LET volume_path == DataBranchPath(brun[r].mounts) IN
           brun' = [brun EXCEPT
                      ![r].last = Cmd("inspect_data"),
                      ![r].vol = volume_path,
                      ![r].pc = IF volume_path # <<>>
                                THEN "mkdir" ELSE "inspect_any"]
  /\ UNCHANGED << remote_backup_path, remote_archive, uiQueue >>
  /\ WorkerFrame

\* _get_volume_path, lines 509-512, and the check of its result, 405-406
GetVolumePathAny(r) ==
  /\ brun[r].pc = "inspect_any"
  /\ \/ ExecRaises(r, "inspect_any", TRUE)
     \/ /\ SessionUsable
        /\ LET volume_path == FallbackPath(brun[r].mounts) IN
           brun' = [brun EXCEPT
                      ![r].last = Cmd("inspect_any"),
                      ![r].vol = volume_path,
                      ![r].pc = IF volume_path # <<>> THEN "mkdir" ELSE "except",
                      ![r].e = IF volume_path # <<>> THEN Unbound ELSE NoVolumeMsg,
                      ![r].failed = IF volume_path # <<>> THEN None
                                    ELSE <<"volume_path", "none">>]
  /\ UNCHANGED << remote_backup_path, remote_archive, uiQueue >>
  /\ WorkerFrame

\* one command run with _execute_command, with the callbacks scheduled
\* before it; the mount table is not read again after _get_volume_path
ExecStep(r, from, before, name, canFail, to) ==
  /\ brun[r].pc = from
  /\ Room(Len(before))
  /\ After(before)
  /\ \/ ExecRaises(r, name, canFail)
     \/ /\ SessionUsable
        /\ brun' = [brun EXCEPT ![r].last = Cmd(name), ![r].pc = to,
                                ![r].mounts = <<>>]
  /\ UNCHANGED remote_backup_path
  /\ WorkerFrame

\* BackupMkdir going on to the media stage, without the dump
BackupMkdirThenMedia(r) ==
  /\ ExecStep(r, "mkdir", <<Callback("progress", r, 10)>>, "mkdir", TRUE,
              "media_check")
  /\ UNCHANGED remote_archive

\* lines 408-418
BackupMkdir(r) ==
  /\ ExecStep(r, "mkdir", <<Callback("progress", r, 10)>>, "mkdir", TRUE,
              "mkdir_other")
  /\ UNCHANGED remote_archive

\* lines 419-420: the option is read now
BackupMkdirOther(r) ==
  /\ brun[r].pc = "mkdir_other"
  /\ IF backup_other_var
     THEN \/ ExecRaises(r, "mkdir_other", TRUE)
          \/ /\ SessionUsable
             /\ brun' = [brun EXCEPT ![r].last = Cmd("mkdir_other"),
                                     ![r].pc = "pg_dump",
                                     ![r].other_dir = TRUE]
     ELSE brun' = [brun EXCEPT ![r].pc = "pg_dump"]
  /\ UNCHANGED << remote_backup_path, remote_archive, uiQueue >>
  /\ WorkerFrame

\* lines 423-426 and _backup_database
BackupDatabase(r) ==
  /\ ExecStep(r, "pg_dump", <<Callback("progress", r, 20)>>, "pg_dump", TRUE,
              "media_check")
  /\ UNCHANGED remote_archive

\* BackupMediaCheck copying although the test printed notfound
BackupMediaCheckCopies(r) ==
  /\ brun[r].pc = "media_check"
  /\ \/ /\ Room(1)
        /\ After(<<Callback("progress", r, 40)>>)
        /\ ExecRaises(r, "media_check", FALSE)
     \/ /\ SessionUsable
        /\ \E result \in {"exists", "notfound"} :
             IF result = "exists"
             THEN /\ Room(1)
                  /\ After(<<Callback("progress", r, 40)>>)
                  /\ brun' = [brun EXCEPT ![r].last = Cmd("media_check"),
                                          ![r].pc = "media_cp"]
             ELSE /\ Room(2)
                  /\ After(<<Callback("progress", r, 40),
                             Callback("media_skipped", r, 0)>>)
                  /\ brun' = [brun EXCEPT ![r].last = Cmd("media_check"),
                                          ![r].pc = "media_cp"]
  /\ UNCHANGED << remote_backup_path, remote_archive >>
  /\ WorkerFrame

\* lines 429-432 and _backup_media, lines 537-544: the test prints exists
\* or notfound and exits 0 either way
BackupMediaCheck(r) ==
  /\ brun[r].pc = "media_check"
  /\ \/ /\ Room(1)
        /\ After(<<Callback("progress", r, 40)>>)
        /\ ExecRaises(r, "media_check", FALSE)
     \/ /\ SessionUsable
        /\ \E result \in {"exists", "notfound"} :
             IF result = "exists"
             THEN /\ Room(1)
                  /\ After(<<Callback("progress", r, 40)>>)
                  /\ brun' = [brun EXCEPT ![r].last = Cmd("media_check"),
                                          ![r].pc = "media_cp"]
             ELSE /\ Room(2)
                  /\ After(<<Callback("progress", r, 40),
                             Callback("media_skipped", r, 0)>>)
                  /\ brun' = [brun EXCEPT ![r].last = Cmd("media_check"),
                                          ![r].pc = "other"]
  /\ UNCHANGED << remote_backup_path, remote_archive >>
  /\ WorkerFrame

\* _backup_media, line 541: cp ... || true exits 0
BackupMediaCopy(r) ==
  /\ ExecStep(r, "media_cp", <<>>, "media_cp", FALSE, "other")
  /\ UNCHANGED remote_archive

\* lines 435-440: the option is read again
BackupOther(r) ==
  /\ brun[r].pc = "other"
  /\ Room(1)
  /\ After(<<Callback("progress", r, 60)>>)
  /\ brun' = [brun EXCEPT ![r].pc = IF backup_other_var THEN "ls" ELSE "tar"]
  /\ UNCHANGED << remote_backup_path, remote_archive >>
  /\ WorkerFrame

\* _backup_other_files, lines 552-553
BackupOtherList(r) ==
  /\ brun[r].pc = "ls"
  /\ \/ ExecRaises(r, "ls", TRUE)
     \/ /\ SessionUsable
        /\ \E entries \in Listings :
             LET output == LsOutput(entries) IN
             brun' = [brun EXCEPT ![r].last = Cmd("ls"),
                                  ![r].dirs = Split(Strip(output), NL),
                                  ![r].listing = entries,
                                  ![r].pc = "cp_other"]
  /\ UNCHANGED << remote_backup_path, remote_archive, uiQueue >>
  /\ WorkerFrame

\* BackupOtherCopy sending cp without `|| true`
BackupOtherCopyUnsuppressed(r) ==
  /\ brun[r].pc = "cp_other"
  /\ IF brun[r].dirs = <<>>
     THEN brun' = [brun EXCEPT ![r].pc = "tar", ![r].listing = <<>>,
                               ![r].copied = <<>>]
     ELSE LET dir_name == Head(brun[r].dirs) IN
          IF dir_name # <<>> /\ dir_name # <<"attachments">>
          THEN \/ /\ ~SessionUsable
                  /\ brun' = [brun EXCEPT ![r].pc = "except",
                                          ![r].e = AttributeErrorMsg,
                                          ![r].failed = <<"cp_other", "session">>,
                                          ![r].listing = <<>>,
                                          ![r].copied = <<>>]
               \/ /\ SessionUsable
                  /\ \E cp \in {0, 1} :
                       LET exit_status == cp IN
                       IF exit_status # 0
                       THEN brun' = [brun EXCEPT
                                       ![r].pc = "except",
                                       ![r].e = CommandFailedMsg("cp_other"),
                                       ![r].failed = <<"cp_other", "status">>,
                                       ![r].last = <<"cp_other">> \o dir_name,
                                       ![r].listing = <<>>,
                                       ![r].copied = <<>>]
                       ELSE brun' = [brun EXCEPT
                                       ![r].last = <<"cp_other">> \o dir_name,
                                       ![r].dirs = Tail(@),
                                       ![r].copied = Append(@, <<dir_name, cp>>)]
          ELSE brun' = [brun EXCEPT ![r].dirs = Tail(@)]
  /\ UNCHANGED << remote_backup_path, remote_archive, uiQueue >>
  /\ WorkerFrame

\* _backup_other_files, lines 555-560: one turn of the loop, or its end.
\* cp exits 0 or not; the command sent is `cp ... || true`.  The listing and
\* the copies are locals of the function, gone when it returns or raises.
BackupOtherCopy(r) ==
  /\ brun[r].pc = "cp_other"
  /\ IF brun[r].dirs = <<>>
     THEN brun' = [brun EXCEPT ![r].pc = "tar", ![r].listing = <<>>,
                               ![r].copied = <<>>]
     ELSE LET dir_name == Head(brun[r].dirs) IN
          IF dir_name # <<>> /\ dir_name # <<"attachments">>
          THEN \/ /\ ~SessionUsable
                  /\ brun' = [brun EXCEPT ![r].pc = "except",
                                          ![r].e = AttributeErrorMsg,
                                          ![r].failed = <<"cp_other", "session">>,
                                          ![r].listing = <<>>,
                                          ![r].copied = <<>>]
               \/ /\ SessionUsable
                  /\ \E cp \in {0, 1} :
                       LET exit_status == ShOr(cp, 0) IN
                       IF exit_status # 0
                       THEN brun' = [brun EXCEPT
                                       ![r].pc = "except",
                                       ![r].e = CommandFailedMsg("cp_other"),
                                       ![r].failed = <<"cp_other", "status">>,
                                       ![r].last = <<"cp_other">> \o dir_name,
                                       ![r].listing = <<>>,
                                       ![r].copied = <<>>]
                       ELSE brun' = [brun EXCEPT
                                       ![r].last = <<"cp_other">> \o dir_name,
                                       ![r].dirs = Tail(@),
                                       ![r].copied = Append(@, <<dir_name, cp>>)]
          ELSE brun' = [brun EXCEPT ![r].dirs = Tail(@)]
  /\ UNCHANGED << remote_backup_path, remote_archive, uiQueue >>
  /\ WorkerFrame

\* lines 443-447
BackupArchive(r) ==
  /\ ExecStep(r, "tar", <<Callback("progress", r, 70)>>, "tar", TRUE, "rm_tmp")
  /\ remote_archive' =
       IF brun'[r].pc = "rm_tmp" THEN [remote_archive EXCEPT ![r] = "present"]
       ELSE remote_archive

\* BackupRemoveTemp with a pattern that matches the archive as well
BackupRemoveTempAndArchive(r) ==
  /\ ExecStep(r, "rm_tmp", <<>>, "rm_tmp", TRUE, "set_path")
  /\ remote_archive' =
       IF brun'[r].pc = "set_path" THEN [remote_archive EXCEPT ![r] = "deleted"]
       ELSE remote_archive

\* line 450
BackupRemoveTemp(r) ==
  /\ ExecStep(r, "rm_tmp", <<>>, "rm_tmp", TRUE, "set_path")
  /\ UNCHANGED remote_archive

\* BackupSetPath reporting the run complete before the download
BackupSetPathComplete(r) ==
  /\ brun[r].pc = "set_path"
  /\ Room(1)
  /\ remote_backup_path' = r
  /\ After(<<Callback("progress", r, 100)>>)
  /\ brun' = [brun EXCEPT ![r].pc = "download"]
  /\ UNCHANGED remote_archive
  /\ WorkerFrame

\* lines 452-456
BackupSetPath(r) ==
  /\ brun[r].pc = "set_path"
  /\ Room(1)
  /\ remote_backup_path' = r
  /\ After(<<Callback("progress", r, 75)>>)
  /\ brun' = [brun EXCEPT ![r].pc = "download"]
  /\ UNCHANGED remote_archive
  /\ WorkerFrame

\* _download_backup: any exception becomes "Download failed"
BackupDownload(r) ==
  /\ brun[r].pc = "download"
  /\ \/ /\ ~SessionUsable
        /\ brun' = [brun EXCEPT ![r].pc = "except", ![r].e = DownloadFailedMsg,
                                ![r].failed = <<"scp", "session">>]
     \/ /\ SessionUsable
        /\ brun' = [brun EXCEPT ![r].pc = "except", ![r].e = DownloadFailedMsg,
                                ![r].failed = <<"scp", "status">>,
                                ![r].last = Cmd("scp")]
     \/ /\ SessionUsable
        /\ remote_archive[r] = "present"
        /\ brun' = [brun EXCEPT ![r].pc = "finish",
                                ![r].last = Cmd("scp")]
  /\ UNCHANGED << remote_backup_path, remote_archive, uiQueue >>
  /\ WorkerFrame

\* lines 462-470
BackupFinish(r) ==
  /\ brun[r].pc = "finish"
  /\ Room(3)
  /\ After(<<Callback("progress", r, 100), Callback("delete_normal", r, 0),
             Callback("backup_normal", r, 0)>>)
  /\ brun' = [brun EXCEPT ![r].pc = "done"]
  /\ UNCHANGED << remote_backup_path, remote_archive >>
  /\ WorkerFrame

\* lines 472-475
BackupExcept(r) ==
  /\ brun[r].pc = "except"
  /\ Room(3)
  /\ After(<<Callback("backup_error_log", r, 0), Callback("backup_error_box", r, 0),
             Callback("backup_normal", r, 0)>>)
  /\ brun' = [brun EXCEPT ![r].pc = "except_exit"]
  /\ UNCHANGED << remote_backup_path, remote_archive >>
  /\ WorkerFrame

\* the end of the except clause deletes `e`
BackupExit(r) ==
  /\ brun[r].pc = "except_exit"
  /\ brun' = [brun EXCEPT ![r] =
                Settle([@ EXCEPT !.pc = "done", !.e = Unbound], GoneRun,
                       uiQueue, RunCallbacks, r)]
  /\ UNCHANGED << remote_backup_path, remote_archive, uiQueue >>
  /\ WorkerFrame

\* the callbacks _do_backup schedules
UiFrame ==
  UNCHANGED << ssh_client, client, remote_backup_path, remote_archive,
               connection_status, connect_btn, refresh_btn, other_cb,
               backup_other_var, containers_info, conn, scan, dialog >>

\* the record of run r after one of its callbacks has run
BackupCallbackRun(r) ==
  brun' = [brun EXCEPT ![r] = Settle(@, GoneRun, uiQueue', RunCallbacks, r)]

\* lambda: self.progress_var.set(n)
SetProgress ==
  /\ Due("progress")
  /\ Taken
  /\ progress_var' = Head(uiQueue).arg
  /\ BackupCallbackRun(Head(uiQueue).id)
  /\ UNCHANGED << backup_btn, delete_btn >>
  /\ UiFrame

\* lambda: self.log_output("No media directory found, skipping...")
MediaSkipped ==
  /\ Due("media_skipped")
  /\ Taken
  /\ BackupCallbackRun(Head(uiQueue).id)
  /\ UNCHANGED << backup_btn, delete_btn, progress_var >>
  /\ UiFrame

\* lambda: self.delete_btn.configure(state='normal')
DeleteNormal ==
  /\ Due("delete_normal")
  /\ Taken
  /\ delete_btn' = "normal"
  /\ BackupCallbackRun(Head(uiQueue).id)
  /\ UNCHANGED << backup_btn, progress_var >>
  /\ UiFrame

\* lambda: self.backup_btn.configure(state='normal')
BackupNormal ==
  /\ Due("backup_normal")
  /\ Taken
  /\ backup_btn' = "normal"
  /\ BackupCallbackRun(Head(uiQueue).id)
  /\ UNCHANGED << delete_btn, progress_var >>
  /\ UiFrame

\* lambda: self.log_output(f"ERROR: {e}")
BackupErrorLog ==
  /\ Due("backup_error_log")
  /\ Taken
  /\ LET r == Head(uiQueue).id IN
     brun' = [brun EXCEPT ![r].errlog =
                IF brun[r].e = Unbound THEN CallbackRaised ELSE brun[r].e]
  /\ UNCHANGED << backup_btn, delete_btn, progress_var >>
  /\ UiFrame

\* lambda: messagebox.showerror("Backup Failed", f"Backup failed:\n{e}"):
\* the box, or NameError, changes no field
BackupErrorBox ==
  /\ Due("backup_error_box")
  /\ Taken
  /\ BackupCallbackRun(Head(uiQueue).id)
  /\ UNCHANGED << backup_btn, delete_btn, progress_var >>
  /\ UiFrame

\* ----------------------------------------------------------------- delete
\* DeleteServerBackup without the test of lines 575-577, bound to a control
\* that is always enabled
DeleteServerBackupUnchecked ==
  /\ dialog = "none"
  /\ dialog' = "Confirm Delete"
  /\ UNCHANGED << ssh_client, client, remote_backup_path, remote_archive,
                  connection_status, connect_btn, refresh_btn, backup_btn,
                  delete_btn, other_cb, backup_other_var, progress_var,
                  containers_info, conn, scan, brun, uiQueue >>

\* delete_server_backup, the Delete Server Backup button, lines 575-581: the
\* handler opens the "No Backup" warning or the confirmation.  While a box
\* is open the main loop runs callbacks and the buttons take no click.
DeleteServerBackup ==
  /\ dialog = "none"
  /\ delete_btn = "normal"
  /\ dialog' = IF remote_backup_path = 0 THEN "No Backup" ELSE "Confirm Delete"
  /\ UNCHANGED << ssh_client, client, remote_backup_path, remote_archive,
                  connection_status, connect_btn, refresh_btn, backup_btn,
                  delete_btn, other_cb, backup_other_var, progress_var,
                  containers_info, conn, scan, brun, uiQueue >>

\* lines 576-577: the warning is closed and the handler returns
NoBackupOk ==
  /\ dialog = "No Backup"
  /\ dialog' = "none"
  /\ UNCHANGED << ssh_client, client, remote_backup_path, remote_archive,
                  connection_status, connect_btn, refresh_btn, backup_btn,
                  delete_btn, other_cb, backup_other_var, progress_var,
                  containers_info, conn, scan, brun, uiQueue >>

\* ConfirmDelete clearing the path before rm -f has run
ConfirmDeleteClearsFirst ==
  /\ dialog = "Confirm Delete"
  /\ \E response \in BOOLEAN, status \in {0, 1} :
       IF ~response
       THEN /\ dialog' = "none"
            /\ UNCHANGED << remote_backup_path, remote_archive, delete_btn >>
       ELSE IF SessionUsable /\ status = 0
       THEN /\ remote_archive' = [remote_archive EXCEPT ![remote_backup_path] =
                                    IF @ = "present" THEN "deleted" ELSE @]
            /\ remote_backup_path' = 0
            /\ delete_btn' = "disabled"
            /\ dialog' = "Success"
       ELSE /\ dialog' = "Error"
            /\ remote_backup_path' = 0
            /\ delete_btn' = "disabled"
            /\ UNCHANGED remote_archive
  /\ UNCHANGED << ssh_client, client, connection_status, connect_btn,
                  refresh_btn, backup_btn, other_cb, backup_other_var,
                  progress_var, containers_info, conn, scan, brun, uiQueue >>

\* lines 582-595: the answer to the confirmation, and rm -f on the path
\* that self.remote_backup_path holds then
ConfirmDelete ==
  /\ dialog = "Confirm Delete"
  /\ \E response \in BOOLEAN, status \in {0, 1} :
       IF ~response
       THEN /\ dialog' = "none"
            /\ UNCHANGED << remote_backup_path, remote_archive, delete_btn >>
       ELSE IF SessionUsable /\ status = 0
       THEN /\ remote_archive' = [remote_archive EXCEPT ![remote_backup_path] =
                                    IF @ = "present" THEN "deleted" ELSE @]
            /\ remote_backup_path' = 0
            /\ delete_btn' = "disabled"
            /\ dialog' = "Success"
       ELSE /\ dialog' = "Error"
            /\ UNCHANGED << remote_backup_path, remote_archive, delete_btn >>
  /\ UNCHANGED << ssh_client, client, connection_status, connect_btn,
                  refresh_btn, backup_btn, other_cb, backup_other_var,
                  progress_var, containers_info, conn, scan, brun, uiQueue >>

\* lines 591 and 595: the box that ends the handler is closed
DeleteBoxOk ==
  /\ dialog \in {"Success", "Error"}
  /\ dialog' = "none"
  /\ UNCHANGED << ssh_client, client, remote_backup_path, remote_archive,
                  connection_status, connect_btn, refresh_btn, backup_btn,
                  delete_btn, other_cb, backup_other_var, progress_var,
                  containers_info, conn, scan, brun, uiQueue >>

\* ---------------------------------------------------------------- options
\* the user ticks or clears the other-files checkbox
ToggleOtherFiles ==
  /\ dialog = "none"
  /\ other_cb = "normal"
  /\ backup_other_var' = ~backup_other_var
  /\ UNCHANGED << ssh_client, client, remote_backup_path, remote_archive,
                  connection_status, connect_btn, refresh_btn, backup_btn,
                  delete_btn, other_cb, progress_var, containers_info, conn,
                  scan, brun, uiQueue,
                  dialog >>

\* ------------------------------------------------------------ the program
GetVolumePath(r) ==
  \/ GetVolumePathJson(r)
  \/ GetVolumePathData(r)
  \/ GetVolumePathAny(r)

DoBackup(r) ==
  \/ GetVolumePath(r)
  \/ BackupMkdir(r)
  \/ BackupMkdirOther(r)
  \/ BackupDatabase(r)
  \/ BackupMediaCheck(r)
  \/ BackupMediaCopy(r)
  \/ BackupOther(r)
  \/ BackupOtherList(r)
  \/ BackupOtherCopy(r)
  \/ BackupArchive(r)
  \/ BackupRemoveTemp(r)
  \/ BackupSetPath(r)
  \/ BackupDownload(r)
  \/ BackupFinish(r)
  \/ BackupExcept(r)
  \/ BackupExit(r)

User ==
  \/ ConnectSsh
  \/ ScanContainers
  \/ StartBackup
  \/ DeleteServerBackup
  \/ ToggleOtherFiles
  \/ NoBackupOk
  \/ ConfirmDelete
  \/ DeleteBoxOk

MainLoop ==
  \/ ConnectionSuccess
  \/ ConnectionFailed
  \/ ScanWarning
  \/ NoContainersWarning
  \/ RefreshNormal
  \/ UpdateContainerLists
  \/ ScanErrorLog
  \/ ScanErrorBox
  \/ SetProgress
  \/ MediaSkipped
  \/ DeleteNormal
  \/ BackupNormal
  \/ BackupErrorLog
  \/ BackupErrorBox

Workers ==
  \/ \E c \in Conns : DoSshConnectCreate(c) \/ DoSshConnect(c) \/ DoSshConnectExit(c)
  \/ \E s \in Scans : DoScanContainers(s) \/ DoScanExcept(s) \/ DoScanExit(s)
  \/ \E r \in Runs : DoBackup(r)

Next == User \/ MainLoop \/ Workers

Spec == Init /\ [][Next]_vars

\* ------------------------------------------------------ _get_volume_path
\* _get_volume_path on every mount table: the program is connected, one
\* scan has filled the lists, and start_backup has just started run 1 on a
\* container whose mount table is m.
VolInit ==
  /\ ssh_client = 1
  /\ client = [c \in Conns |-> IF c = 1 THEN "connected" ELSE "absent"]
  /\ remote_backup_path = 0
  /\ remote_archive = [r \in Runs |-> "none"]
  /\ connection_status = "Connected"
  /\ connect_btn = "normal"
  /\ refresh_btn = "normal"
  /\ backup_btn = "disabled"
  /\ delete_btn = "disabled"
  /\ other_cb = "normal"
  /\ backup_other_var \in BOOLEAN
  /\ progress_var = 0
  /\ containers_info = 1
  /\ conn = [c \in Conns |-> IF c = 1 THEN GoneConn ELSE IdleConn]
  /\ scan = [s \in Scans |-> IF s = 1 THEN GoneScan ELSE IdleScan]
  /\ \E m \in MountTables :
       brun = [r \in Runs |->
                 IF r = 1
                 THEN [IdleRun EXCEPT !.pc = "inspect_json", !.mounts = m,
                                      !.other0 = backup_other_var]
                 ELSE IdleRun]
  /\ uiQueue = <<>>
  /\ dialog = "none"

VolNext == \E r \in Runs : GetVolumePath(r)

SpecVolume == VolInit /\ [][VolNext]_vars

\* ------------------------------------------------------------- properties

NoScanDuringBackup == Running(scan) = {} \/ Running(brun) = {}

Succeeded(r) ==
  /\ brun[r].pc = "done"
  /\ brun[r].last = Cmd("scp")
  /\ brun[r].failed = None
  /\ brun[r].errlog = None

\* C4: the progress value 100 is scheduled and shown only for a run whose
\* every stage, the download included, completed; a failed run never sets it.
HundredOnlyOnSuccess ==
  /\ [](\A i \in 1..Len(uiQueue) :
          (uiQueue[i].cb = "progress" /\ uiQueue[i].arg = 100)
            => Succeeded(uiQueue[i].id))
  /\ [][(progress_var' = 100 /\ progress_var # 100)
          => (Due("progress") /\ Succeeded(Head(uiQueue).id))]_vars

\* a successful run's 100 has reached the progress bar
HundredShown ==
  /\ progress_var = 100
  /\ \E r \in Runs : brun[r] = GoneRun
  /\ remote_backup_path # 0
  /\ delete_btn = "normal"

\* C5: when pg_dump exits non-zero the run sends no later command and the
\* error written to the log contains the stderr text of pg_dump.
DumpFailureLogged ==
  \A r \in Runs :
    brun[r].failed = <<"pg_dump", "status">>
      => /\ brun[r].last = Cmd("pg_dump")
         /\ brun[r].errlog # None => Contains("stderr", brun[r].errlog)

\* C6: a run started with the other-files option off never creates the
\* other-files directory and never lists the data volume.
NoOtherFilesWhenOff ==
  \A r \in Runs :
    (brun[r].pc # "idle" /\ ~brun[r].other0)
      => brun[r].last \notin {Cmd("mkdir_other"), Cmd("ls")}

\* _get_volume_path has returned for run r: a path, or None
Returned(r) ==
  \/ brun[r].pc = "mkdir"
  \/ brun[r].pc = "except" /\ brun[r].failed = <<"volume_path", "none">>
ReturnedPath(r) == IF brun[r].pc = "mkdir" THEN brun[r].vol ELSE None
DataMounts(m) == {i \in 1..Len(m) : m[i].Destination = DataDest}

\* C7: when a mount has destination /data, _get_volume_path returns the
\* source of that mount and never the source of another mount.
DataMountSourceReturned ==
  \A r \in Runs :
    (Returned(r) /\ DataMounts(brun[r].mounts) # {})
      => \E i \in DataMounts(brun[r].mounts) :
           ReturnedPath(r) = brun[r].mounts[i].Source

Sourced(m) == \A i \in 1..Len(m) : m[i].Source # <<>>

\* C8: when no mount has destination /data, _get_volume_path returns the
\* source of the first mount, and no path when there are no mounts (stated
\* for mount tables in which every mount has a source).
FirstMountSourceReturned ==
  \A r \in Runs :
    (Returned(r) /\ DataMounts(brun[r].mounts) = {} /\ Sourced(brun[r].mounts))
      => ReturnedPath(r) = IF brun[r].mounts = <<>> THEN None
                           ELSE brun[r].mounts[1].Source

\* C9: a listing command that fails is never reported as "no containers".
FailedListingNotEmpty ==
  \A s \in Scans :
    scan[s].listing = "failed"
      => /\ ~Pending(uiQueue, {"no_containers"}, s)
         /\ "no_containers" \notin scan[s].shown

\* the listing of scan s succeeded and held no container
EmptyListing(s) ==
  scan[s].pc = "done" /\ scan[s].listing = "ok" /\ scan[s].found = 0

\* C10: a listing that succeeds with no container shows the "No Containers"
\* warning, never reaches _update_container_lists, and enables the scan
\* button again.
EmptyListingWarns ==
  /\ [](\A s \in Scans :
          EmptyListing(s)
            => /\ \/ Pending(uiQueue, {"no_containers"}, s)
                  \/ "no_containers" \in scan[s].shown
               /\ ~Pending(uiQueue, {"update_container_lists"}, s)
               /\ "updated" \notin scan[s].shown
               /\ Pending(uiQueue, {"refresh_normal"}, s))
  /\ [][\A s \in Scans :
          (EmptyListing(s) /\ Due("refresh_normal") /\ Head(uiQueue).id = s
             /\ uiQueue' = Tail(uiQueue))
            => ("no_containers" \in scan[s].shown /\ refresh_btn' = "normal")]_vars

\* the warning of an empty listing is on screen, the button not yet enabled
EmptyListingWarned ==
  \E s \in Scans :
    /\ EmptyListing(s)
    /\ "no_containers" \in scan[s].shown
    /\ Due("refresh_normal")
    /\ Head(uiQueue).id = s
    /\ refresh_btn = "disabled"

\* the stages of a run before its own archive exists
PreArchive ==
  {"inspect_json", "inspect_data", "inspect_any", "mkdir", "mkdir_other",
   "pg_dump", "media_check", "media_cp", "other", "ls", "cp_other", "tar"}

\* C11: from the start of a run until it has created its archive,
\* remote_backup_path does not name the archive of an earlier, finished run.
NoStalePathDuringRun ==
  \A r \in Runs :
    brun[r].pc \in PreArchive
      => \/ remote_backup_path = 0
         \/ brun[remote_backup_path].pc # "done"

\* the archive of run r is removed in this step
Removed(r) == remote_archive[r] # "deleted" /\ remote_archive'[r] = "deleted"

\* C12: delete_server_backup with no retained path opens the "No Backup"
\* warning and nothing else: no confirmation, no removal of an archive.
NothingToDelete ==
  /\ [][(dialog = "none" /\ dialog' # "none" /\ remote_backup_path = 0)
          => dialog' = "No Backup"]_vars
  /\ [][dialog = "No Backup"
          => /\ dialog' \in {"No Backup", "none"}
             /\ \A r \in Runs : ~Removed(r)]_vars

\* the warning is open and there is no retained path
NothingToDeleteShown == dialog = "No Backup" /\ remote_backup_path = 0

\* C13: a delete that is declined or whose rm fails leaves
\* remote_backup_path and the delete button as they were; the path is
\* cleared only together with a successful rm.
ClearedOnSuccessOnly ==
  /\ [][(dialog = "Confirm Delete" /\ dialog' \in {"none", "Error"})
          => /\ remote_backup_path' = remote_backup_path
             /\ delete_btn' = delete_btn
             /\ remote_archive' = remote_archive]_vars
  /\ [][(remote_backup_path # 0 /\ remote_backup_path' = 0)
          => /\ dialog = "Confirm Delete"
             /\ dialog' = "Success"
             /\ Removed(remote_backup_path)]_vars

\* rm failed: the error box is open, the path is kept and the button enabled
DeleteFailedKeepsPath ==
  dialog = "Error" /\ remote_backup_path # 0 /\ delete_btn = "normal"

\* C14: an archive is removed only by delete_server_backup after the user
\* answered yes to its confirmation; no step of a backup run removes one.
RemovedOnlyWhenConfirmed ==
  [][\A r \in Runs :
       Removed(r) => (dialog = "Confirm Delete" /\ dialog' = "Success")]_vars

\* an archive has just been removed on the user's confirmation
ArchiveRemoved ==
  dialog = "Success" /\ \E r \in Runs : remote_archive[r] = "deleted"

\* the message of the exception that `failed` stands for
ErrorOf(failed) ==
  IF failed[1] = "scp" THEN DownloadFailedMsg
  ELSE IF failed[2] = "none" THEN NoVolumeMsg
  ELSE IF failed[2] = "session" THEN AttributeErrorMsg
  ELSE CommandFailedMsg(failed[1])

\* C15: a run in which a stage failed sends no further command, ends in the
\* except clause, and the line it writes to the log is the message of the
\* exception that was raised.
StageFailureAborts ==
  \A r \in Runs :
    brun[r].failed # None
      => /\ brun[r].pc \in {"except", "except_exit", "done"}
         /\ brun[r].failed[2] = "status" => brun[r].last = Cmd(brun[r].failed[1])
         /\ brun[r].errlog \in {None, ErrorOf(brun[r].failed)}

\* C16: a run removes its workspace only once its archive exists, and when
\* a run ends in success its archive is on the server and
\* remote_backup_path names it.
SuccessKeepsOwnArchive ==
  /\ [](\A r \in Runs :
          brun[r].last = Cmd("rm_tmp") => remote_archive[r] # "none")
  /\ [][\A r \in Runs :
          (brun[r].pc = "finish" /\ brun'[r].pc = "done")
            => (remote_backup_path' = r /\ remote_archive'[r] = "present")]_vars

\* no thread of the kind is running and no callback of one is left
Over(threads, cbs) ==
  /\ Running(threads) = {}
  /\ \A id \in DOMAIN threads : ~Pending(uiQueue, cbs, id)

\* C17: once an operation is over (its thread has ended and its callbacks
\* have run) the button that started it is enabled again.
ControlsReenabled ==
  /\ Over(conn, ConnCallbacks) => connect_btn = "normal"
  /\ Over(scan, ScanCallbacks) => refresh_btn = "normal"
  /\ (Begun(brun) # {} /\ Over(brun, RunCallbacks)) => backup_btn = "normal"

\* the session is established and a scan, a run or a confirmed delete is
\* about to send commands on it
SessionInUse ==
  /\ ssh_client # 0
  /\ client[ssh_client] = "connected"
  /\ \/ Running(scan) # {}
     \/ Running(brun) # {}
     \/ dialog = "Confirm Delete"

\* C18: while an established session is in use, self.ssh_client is not
\* replaced or cleared and the session is not closed.
SessionKeptWhileInUse ==
  [][SessionInUse
       => (ssh_client' = ssh_client /\ client'[ssh_client] = "connected")]_vars

\* the commands that may directly follow command a in one run
Follows(a) ==
  CASE a = None -> {Cmd("inspect_json")}
    [] a = Cmd("inspect_json") -> {Cmd("inspect_data"), Cmd("inspect_any")}
    [] a = Cmd("inspect_data") -> {Cmd("inspect_any"), Cmd("mkdir")}
    [] a = Cmd("inspect_any") -> {Cmd("mkdir")}
    [] a = Cmd("mkdir") -> {Cmd("mkdir_other"), Cmd("pg_dump")}
    [] a = Cmd("mkdir_other") -> {Cmd("pg_dump")}
    [] a = Cmd("pg_dump") -> {Cmd("media_check")}
    [] a = Cmd("media_check") -> {Cmd("media_cp"), Cmd("ls"), Cmd("tar")}
    [] a = Cmd("media_cp") -> {Cmd("ls"), Cmd("tar")}
    [] a = Cmd("ls") -> {<<"cp_other", "f">>, Cmd("tar")}
    [] a = <<"cp_other", "f">> -> {<<"cp_other", "g">>}
    [] a = <<"cp_other", "g">> -> {Cmd("tar")}
    [] a = Cmd("tar") -> {Cmd("rm_tmp")}
    [] a = Cmd("rm_tmp") -> {Cmd("scp")}
    [] OTHER -> {}

\* C19: the commands of one run are sent in the order of the stages, and
\* none is sent after a command of the run has raised.
StagesInOrder ==
  [][\A r \in Runs :
       (brun'[r].last # brun[r].last /\ brun'[r] # GoneRun)
         => /\ brun'[r].last \in Follows(brun[r].last)
            /\ brun[r].failed = None]_vars

\* a run has sent every command, the download last
AllStagesDone ==
  \E r \in Runs :
    brun[r].pc = "finish" /\ brun[r].last = Cmd("scp") /\ brun[r].failed = None

\* run r is told in the log that the media directory is skipped
SkipScheduled(r, q) == Pending(q, {"media_skipped"}, r)

\* C20: when the test finds no attachments directory the run schedules the
\* "skipping" log line, sends no copy command for media and goes on to the
\* next stage without an error.
MissingMediaSkipped ==
  /\ [][\A r \in Runs :
          (brun[r].pc = "media_check" /\ brun'[r].pc # "media_check")
            => /\ SkipScheduled(r, uiQueue') <=> brun'[r].pc = "other"
               /\ brun'[r].pc = "other"
                    => (brun'[r].last = Cmd("media_check")
                          /\ brun'[r].failed = None)]_vars
  /\ [](\A r \in Runs :
          SkipScheduled(r, uiQueue)
            => (brun[r].pc # "media_cp" /\ brun[r].last # Cmd("media_cp")))

\* a run that skipped the media copy has archived and removed its workspace
SkippedAndArchived ==
  \E r \in Runs :
    /\ SkipScheduled(r, uiQueue)
    /\ brun[r].pc = "set_path"
    /\ brun[r].failed = None
    /\ remote_archive[r] = "present"

\* the entries of a volume that _backup_other_files is to copy, in order
Copyable(entries) ==
  SelectSeq(entries, LAMBDA d : d # <<>> /\ d # <<"attachments">>)

\* the entries whose copy command has run
CopiedNames(copied) == [i \in 1..Len(copied) |-> copied[i][1]]

OtherStageIffDirectory ==
  [][\A r \in Runs :
       (brun[r].pc = "other" /\ brun'[r].pc # "other")
         => (brun'[r].pc = "ls" <=> brun[r].other_dir)]_vars

\* no thread is running, no callback of one is left and no box is open
NoOperationInFlight ==
  /\ Over(conn, ConnCallbacks)
  /\ Over(scan, ScanCallbacks)
  /\ Over(brun, RunCallbacks)
  /\ dialog = "none"

\* C23: whenever no operation is in flight, the Delete Server Backup button
\* is enabled exactly when remote_backup_path holds a path.
DeleteEnabledIffPath ==
  NoOperationInFlight
    => (delete_btn = "normal" <=> remote_backup_path # 0)

\* delete_server_backup sends its rm command in this step
RmSent ==
  /\ dialog = "Confirm Delete"
  /\ dialog' \in {"Success", "Error"}
  /\ SessionUsable

\* C24: delete_server_backup sends no rm while a backup run is in flight,
\* and the archive of a run is not removed between its creation and the end
\* of its download.
ArchiveKeptDuringRun ==
  /\ [][RmSent => Running(brun) = {}]_vars
  /\ [][\A r \in Runs :
          Removed(r) => brun[r].pc \notin {"rm_tmp", "set_path", "download"}]_vars

\* C25: while the Scan Containers or the Start Backup button is enabled
\* self.ssh_client is not None, and no run finds itself without a session
\* to send a command on.
ControlsImplySession ==
  /\ (refresh_btn = "normal" \/ backup_btn = "normal") => ssh_client # 0
  /\ \A r \in Runs :
       brun[r].failed # None => brun[r].failed[2] # "session"

====
